---- MODULE Spec2Model ----
(***************************************************************************)
(* Model of src/inject-cordova-index.js (gulp-cordova-build-utils).        *)
(*                                                                         *)
(* Text is a sequence of symbols.  A symbol is a TLA+ string standing for  *)
(* one lexeme of the text: a whole tag such as "<head>" that a pattern of   *)
(* the program matches literally, or a single character.  Lexemes that a   *)
(* pattern of the program can match piecewise (the base tag) are split     *)
(* into the pieces the pattern distinguishes.                              *)
(***************************************************************************)
EXTENDS Integers, Sequences, FiniteSets, TLC

VARIABLES
    injectionFile,   \* what fs.readFileSync finds at injectionFilePath
    extracted,       \* outcome of the last extractTextToInject call
    cspArgs,         \* arguments of createMetaCsp
    metaCsp,         \* value returned by createMetaCsp
    textToInject,    \* fragment set captured by injectDeviceReadyDetection
    file,            \* the vinyl file travelling through the stream
    stage,           \* the stream stage the file has reached
    original,        \* the file as it was written into the stream
    before,          \* contents of the file ahead of the last stage it left
    pipelines,       \* lazypipes returned by injectIndex
    streams,         \* streams built from those lazypipes
    calls,           \* per lazypipe: extractTextToInject / createMetaCsp calls
    written,         \* per lazypipe: documents that have gone through a stream
    thrown           \* error thrown by the last call, or NoError

vars == <<injectionFile, extracted, cspArgs, metaCsp, textToInject, file,
          stage, original, before, pipelines, streams, calls, written, thrown>>

----------------------------------------------------------------------------
(* Generic helpers on text *)

Min(S) == CHOOSE x \in S : \A y \in S : x <= y

Max(S) == CHOOSE x \in S : \A y \in S : x >= y

RECURSIVE Concat(_)
Concat(ss) == IF ss = <<>> THEN <<>> ELSE Head(ss) \o Concat(Tail(ss))

\* All sequences over S of length at most n
SeqsUpTo(S, n) == UNION {[1..k -> S] : k \in 0..n}

\* Array.prototype.join: elements separated by sep
RECURSIVE Join(_, _)
Join(parts, sep) ==
    IF parts = <<>> THEN <<>>
    ELSE IF Len(parts) = 1 THEN Head(parts)
    ELSE Head(parts) \o sep \o Join(Tail(parts), sep)

\* text[from..] as a sequence (empty when from is past the end)
From(text, from) == SubSeq(text, from, Len(text))

\* positions at which the symbol sequence pat occurs in text
Occurrences(text, pat) ==
    {i \in 1..(Len(text) - Len(pat) + 1) : SubSeq(text, i, i + Len(pat) - 1) = pat}

Contains(text, pat) == Occurrences(text, pat) # {}

----------------------------------------------------------------------------
(* The injection file and extractTextToInject *)

DEFAULT_SOURCE == <<"index.html">>

\* require.resolve('./index.html.inject')
injectionFilePath == <<"index.html.inject">>

Tags == {"head-start", "head-end", "body-start", "body-end"}

Open(t) == "<" \o t \o ">"

Close(t) == "</" \o t \o ">"

NoError == [name |-> "none", message |-> <<>>]

\* fs.readFileSync(path): the text of the file, or the system error
ReadFileSync(path, f) ==
    CASE f.kind = "file"       -> [ok |-> TRUE, text |-> f.text, error |-> NoError]
      [] f.kind = "missing"    -> [ok |-> FALSE, text |-> <<>>,
                                   error |-> [name |-> "ENOENT",
                                              message |-> <<"ENOENT: no such file or directory, open '">> \o path \o <<"'">>]]
      [] f.kind = "unreadable" -> [ok |-> FALSE, text |-> <<>>,
                                   error |-> [name |-> "EACCES",
                                              message |-> <<"EACCES: permission denied, open '">> \o path \o <<"'">>]]

\* /<t>([\s\S]*)<\/t>/.exec(text): leftmost opening tag that some closing tag
\* follows; the greedy group runs to the LAST closing tag
ExecTag(text, t) ==
    LET opens  == {i \in 1..Len(text) : text[i] = Open(t)}
        closes == {j \in 1..Len(text) : text[j] = Close(t)}
        starts == {i \in opens : \E j \in closes : j > i}
    IN  IF starts = {} THEN [matched |-> FALSE, group1 |-> <<>>]
        ELSE LET i == Min(starts)
                 j == Max({k \in closes : k > i})
             IN  [matched |-> TRUE, group1 |-> SubSeq(text, i + 1, j - 1)]

NoFragments == [headStart |-> <<>>, headEnd |-> <<>>, bodyStart |-> <<>>, bodyEnd |-> <<>>]

Returned(v) == [kind |-> "return", value |-> v, error |-> NoError]

Threw(e) == [kind |-> "throw", value |-> NoFragments, error |-> e]

NotCalled == [kind |-> "none", value |-> NoFragments, error |-> NoError]

\* extractTextToInject with the head-start pattern left out of the check (as it
\* is left out of the error message): reading group 1 of a null match throws
extractTextToInject_headStartUnchecked(path, f) ==
    LET read == ReadFileSync(path, f)
        injectionText == read.text
        headStart == ExecTag(injectionText, "head-start")
        headEnd   == ExecTag(injectionText, "head-end")
        bodyStart == ExecTag(injectionText, "body-start")
        bodyEnd   == ExecTag(injectionText, "body-end")
    IN  IF ~read.ok THEN Threw(read.error)
        ELSE IF injectionText = <<>>
        THEN Threw([name |-> "FileNotFound",
                    message |-> <<"File ">> \o path \o <<" not found !">>])
        ELSE IF ~headEnd.matched \/ ~bodyStart.matched \/ ~bodyEnd.matched
        THEN Threw([name |-> "BadInjectionFile",
                    message |-> <<"Bad injection file. Required patterns do no match (<head-end>/<body-start>/<body-end> !!!! Please ensure to use a well formatted injextion file (here we use: '">>
                                \o path \o <<"')">>])
        ELSE IF ~headStart.matched
        THEN Threw([name |-> "TypeError",
                    message |-> <<"Cannot read properties of null (reading '1')">>])
        ELSE Returned([headStart |-> headStart.group1,
                       headEnd   |-> headEnd.group1,
                       bodyStart |-> bodyStart.group1,
                       bodyEnd   |-> bodyEnd.group1])

extractTextToInject(path, f) ==
    LET read == ReadFileSync(path, f)
        injectionText == read.text
        headStart == ExecTag(injectionText, "head-start")
        headEnd   == ExecTag(injectionText, "head-end")
        bodyStart == ExecTag(injectionText, "body-start")
        bodyEnd   == ExecTag(injectionText, "body-end")
    IN  IF ~read.ok THEN Threw(read.error)
        ELSE IF injectionText = <<>>
        THEN Threw([name |-> "FileNotFound",
                    message |-> <<"File ">> \o path \o <<" not found !">>])
        ELSE IF ~headStart.matched \/ ~headEnd.matched
                \/ ~bodyStart.matched \/ ~bodyEnd.matched
        THEN Threw([name |-> "BadInjectionFile",
                    message |-> <<"Bad injection file. Required patterns do no match (<head-end>/<body-start>/<body-end> !!!! Please ensure to use a well formatted injextion file (here we use: '">>
                                \o path \o <<"')">>])
        ELSE Returned([headStart |-> headStart.group1,
                       headEnd   |-> headEnd.group1,
                       bodyStart |-> bodyStart.group1,
                       bodyEnd   |-> bodyEnd.group1])

----------------------------------------------------------------------------
(* Injection files the extraction is run on *)

MaxRegionLen == 4

TagOrder == <<"head-start", "head-end", "body-start", "body-end">>

\* every arrangement of one tag's delimiters and filler text, up to the bound
RichRegions(t) == SeqsUpTo({Open(t), Close(t), "x"}, MaxRegionLen)

\* a tag left out, an empty region, a region with text
PlainRegions(t) == {<<>>, <<Open(t), Close(t)>>, <<Open(t), "y", Close(t)>>}

\* text with ins spliced in after position p
Insert(text, p, ins) == SubSeq(text, 1, p) \o ins \o From(text, p + 1)

\* the tags other than the f-th, in file order
OtherTags(f) == [k \in 1..3 |-> TagOrder[IF k < f THEN k ELSE k + 1]]

\* One tag gets a rich region, the other three a plain one (in file order);
\* the rich region sits anywhere, also inside another tag's region.
DrawInjectionFile(f) ==
    \/ \E fi \in 1..4 : \E rich \in RichRegions(TagOrder[fi]) :
         \E p1 \in PlainRegions(OtherTags(fi)[1]) :
           \E p2 \in PlainRegions(OtherTags(fi)[2]) :
             \E p3 \in PlainRegions(OtherTags(fi)[3]) :
               \E p \in 0..Len(p1 \o p2 \o p3) :
                 f = [kind |-> "file", text |-> Insert(p1 \o p2 \o p3, p, rich)]
    \/ f = [kind |-> "missing", text |-> <<>>]
    \/ f = [kind |-> "unreadable", text |-> <<>>]

----------------------------------------------------------------------------
(* createMetaCsp.  A string is a sequence of symbols; a list of strings is a  *)
(* sequence of such sequences.                                                *)

\* createMetaCsp with the test on the source dropped: always the file: scheme
createMetaCsp_alwaysFile(source, connectSrc, defaultSrc, frameSrc) ==
    LET cspConnectSrc == <<<<"self:">>, <<"file:">>>> \o connectSrc
        cspDefaultSrc == <<<<"https://www.google-analytics.com">>,
                           <<"https://www.youtube.com">>,
                           <<"https://s.ytimg.com">>>> \o defaultSrc
        cspFrameSrc == <<<<"https://www.youtube.com">>>> \o frameSrc
        cspRules == <<
            <<<<"default-src">>, <<"'self' data: gap: https://ssl.gstatic.com 'unsafe-eval' 'unsafe-inline'", " ">>
                                   \o Join(cspDefaultSrc, <<" ">>)>>,
            <<<<"media-src">>, <<"data: *">>>>,
            <<<<"img-src">>, <<"data: blob: *">>>>,
            <<<<"font-src">>, <<"data: 'self' https://fonts.gstatic.com">>>>,
            <<<<"style-src">>, <<"'self' 'unsafe-inline' https://fonts.googleapis.com">>>>,
            <<<<"connect-src">>, Join(cspConnectSrc, <<" ">>)>>,
            <<<<"frame-src">>, Join(cspFrameSrc, <<" ">>)>>,
            <<<<"child-src">>, Join(cspFrameSrc, <<" ">>)>> >>
        csp == Join([k \in 1..Len(cspRules) |-> cspRules[k][1] \o <<" ">> \o cspRules[k][2]],
                    <<";">>)
    IN  <<"<meta http-equiv=\"Content-Security-Policy\" content=\"">> \o csp \o <<"\"/>">>

createMetaCsp(source, connectSrc, defaultSrc, frameSrc) ==
    LET cspConnectSrc == <<<<"self:">>,
                           IF source = DEFAULT_SOURCE THEN <<"file:">> ELSE source>>
                           \o connectSrc
        cspDefaultSrc == <<<<"https://www.google-analytics.com">>,
                           <<"https://www.youtube.com">>,
                           <<"https://s.ytimg.com">>>> \o defaultSrc
        cspFrameSrc == <<<<"https://www.youtube.com">>>> \o frameSrc
        \* the object literal, as its keys in insertion order with their values
        cspRules == <<
            <<<<"default-src">>, <<"'self' data: gap: https://ssl.gstatic.com 'unsafe-eval' 'unsafe-inline'", " ">>
                                   \o Join(cspDefaultSrc, <<" ">>)>>,
            <<<<"media-src">>, <<"data: *">>>>,
            <<<<"img-src">>, <<"data: blob: *">>>>,
            <<<<"font-src">>, <<"data: 'self' https://fonts.gstatic.com">>>>,
            <<<<"style-src">>, <<"'self' 'unsafe-inline' https://fonts.googleapis.com">>>>,
            <<<<"connect-src">>, Join(cspConnectSrc, <<" ">>)>>,
            <<<<"frame-src">>, Join(cspFrameSrc, <<" ">>)>>,
            <<<<"child-src">>, Join(cspFrameSrc, <<" ">>)>> >>
        csp == Join([k \in 1..Len(cspRules) |-> cspRules[k][1] \o <<" ">> \o cspRules[k][2]],
                    <<";">>)
    IN  <<"<meta http-equiv=\"Content-Security-Policy\" content=\"">> \o csp \o <<"\"/>">>

MaxOrigins == 2

Origins == {<<"https://a.example">>, <<"wss://b.example">>}

OriginLists == SeqsUpTo(Origins, MaxOrigins)

Sources == {DEFAULT_SOURCE, <<"http://localhost:8080">>, <<"https://a.example">>, <<>>}

----------------------------------------------------------------------------
(* gulp-replace on a buffered file, as the stream stages use it *)

\* String.prototype.replace's replacement patterns: $$ is a dollar sign, $& the
\* match, $` the text before it, $' the text after it; a pattern that names no
\* group of the expression stays as written
RECURSIVE ExpandReplacement(_, _, _, _)
ExpandReplacement(repl, matched, pre, post) ==
    IF repl = <<>> THEN <<>>
    ELSE IF Head(repl) = "$" /\ Len(repl) >= 2 /\ repl[2] \in {"$", "&", "`", "'"}
    THEN (CASE repl[2] = "$" -> <<"$">>
            [] repl[2] = "&" -> matched
            [] repl[2] = "`" -> pre
            [] repl[2] = "'" -> post)
           \o ExpandReplacement(Tail(Tail(repl)), matched, pre, post)
    ELSE <<Head(repl)>> \o ExpandReplacement(Tail(repl), matched, pre, post)

NoMatch == [found |-> FALSE, from |-> 0, to |-> 0]

\* replace(regex, replacement) with a regex without the g flag:
\* String(contents).replace(regex, replacement), m being the regex's first match
ReplaceRegex(text, m, replacement) ==
    IF ~m.found THEN text
    ELSE LET pre  == SubSeq(text, 1, m.from - 1)
             post == From(text, m.to + 1)
         IN  pre \o ExpandReplacement(replacement, SubSeq(text, m.from, m.to), pre, post)
                 \o post

\* replace(string, replacement): String(contents).split(string).join(replacement),
\* so every occurrence is replaced and the replacement is taken literally
RECURSIVE ReplaceString(_, _, _)
ReplaceString(text, search, replacement) ==
    IF ~Contains(text, search) THEN text
    ELSE LET i == Min(Occurrences(text, search))
         IN  SubSeq(text, 1, i - 1) \o replacement
               \o ReplaceString(From(text, i + Len(search)), search, replacement)

\* first match of a regex that is one literal lexeme: /<head>/, /<\/head>/, ...
MatchLiteral(text, sym) ==
    IF \E i \in 1..Len(text) : text[i] = sym
    THEN LET i == Min({k \in 1..Len(text) : text[k] = sym})
         IN  [found |-> TRUE, from |-> i, to |-> i]
    ELSE NoMatch

\* the first position from i on that holds no space (Len(text) + 1 if none)
SkipSpaces(text, i) ==
    Min({k \in i..(Len(text) + 1) : k = Len(text) + 1 \/ text[k] # " "})

\* the end of the match of /<base\ *href=".*"\ *>/ that starts at i, or 0:
\* .* is greedy and stays on the line, so the match runs to the last
\* quote of the line that spaces and '>' follow
BaseMatchEnd(text, i) ==
    LET j == SkipSpaces(text, i + 1)
    IN  IF text[i] = "<base" /\ j + 1 <= Len(text)
           /\ text[j] = "href=" /\ text[j + 1] = "\""
        THEN LET quotes == {q \in (j + 2)..Len(text) :
                              /\ text[q] = "\""
                              /\ \A k \in (j + 2)..(q - 1) : text[k] # "\n"
                              /\ SkipSpaces(text, q + 1) <= Len(text)
                              /\ text[SkipSpaces(text, q + 1)] = ">"}
             IN  IF quotes = {} THEN 0 ELSE SkipSpaces(text, Max(quotes) + 1)
        ELSE 0

\* first (leftmost) match of /<base\ *href=".*"\ *>/
MatchBase(text) ==
    LET starts == {i \in 1..Len(text) : BaseMatchEnd(text, i) > 0}
    IN  IF starts = {} THEN NoMatch
        ELSE [found |-> TRUE, from |-> Min(starts), to |-> BaseMatchEnd(text, Min(starts))]

InjectScript == <<"<!-- inject:cordova-script -->">>

InjectCsp == <<"<!-- inject:cordova-csp -->">>

CordovaScript == <<"<script src=\"cordova.js\" async></script>">>

\* the four replace stages of injectDeviceReadyDetection
ReplaceHead(text, t) == ReplaceRegex(text, MatchLiteral(text, "<head>"), <<"<head>">> \o t.headStart)

ReplaceHeadClose_after(text, t) ==
    ReplaceRegex(text, MatchLiteral(text, "</head>"), <<"</head>">> \o t.headEnd)

ReplaceHeadClose(text, t) ==
    ReplaceRegex(text, MatchLiteral(text, "</head>"), t.headEnd \o <<"</head>">>)

ReplaceBody(text, t) == ReplaceRegex(text, MatchLiteral(text, "<body>"), <<"<body>">> \o t.bodyStart)

ReplaceBodyClose(text, t) ==
    ReplaceRegex(text, MatchLiteral(text, "</body>"), t.bodyEnd \o <<"</body>">>)

\* the three replace stages of injectIndex
ReplaceBase(text) == ReplaceRegex(text, MatchBase(text), <<>>)

ReplaceScript(text) == ReplaceString(text, InjectScript, CordovaScript)

ReplaceCsp(text, meta) == ReplaceString(text, InjectCsp, meta)

\* filter('**/*.html'): the name of the file ends in .html (and is not just that)
HtmlFilter_all(path) == TRUE

HtmlFilter(path) == Len(path) >= 2 /\ path[Len(path)] = ".html"

----------------------------------------------------------------------------
(* State the components do not use keeps these values *)

NoFile == [path |-> <<>>, contents |-> <<>>]

NoArgs == [source |-> <<>>, connectSrc |-> <<>>, defaultSrc |-> <<>>, frameSrc |-> <<>>]

NoOptions == [given |-> FALSE, source |-> <<>>, connectSrc |-> <<>>, defaultSrc |-> <<>>,
              frameSrc |-> <<>>]

IdleExtract == injectionFile = [kind |-> "missing", text |-> <<>>] /\ extracted = NotCalled

IdleCsp == cspArgs = NoArgs /\ metaCsp = <<>>

IdleStream == textToInject = NoFragments /\ file = NoFile /\ stage = "idle"
                /\ original = NoFile /\ before = <<>>

IdleFactory == pipelines = <<>> /\ streams = <<>> /\ calls = <<>> /\ written = <<>>
                 /\ thrown = NoError

----------------------------------------------------------------------------
(* Specification of the extractor: one call on every injection file *)

InitExtract ==
    /\ DrawInjectionFile(injectionFile)
    /\ extracted = NotCalled
    /\ IdleCsp /\ IdleStream /\ IdleFactory

CallExtract ==
    /\ extracted.kind = "none"
    /\ extracted' = extractTextToInject(injectionFilePath, injectionFile)
    /\ UNCHANGED <<injectionFile, cspArgs, metaCsp, textToInject, file, stage,
                   original, before, pipelines, streams, calls, written, thrown>>

NextExtract == CallExtract

SpecExtract == InitExtract /\ [][NextExtract]_vars

----------------------------------------------------------------------------
(* Specification of the CSP composer: one call on every argument tuple *)

InitCsp ==
    /\ cspArgs \in [source : Sources, connectSrc : OriginLists,
                    defaultSrc : OriginLists, frameSrc : OriginLists]
    /\ metaCsp = <<>>
    /\ IdleExtract /\ IdleStream /\ IdleFactory

CallCreateMetaCsp ==
    /\ metaCsp = <<>>
    /\ metaCsp' = createMetaCsp(cspArgs.source, cspArgs.connectSrc,
                                cspArgs.defaultSrc, cspArgs.frameSrc)
    /\ UNCHANGED <<injectionFile, extracted, cspArgs, textToInject, file, stage,
                   original, before, pipelines, streams, calls, written, thrown>>

NextCsp == CallCreateMetaCsp

SpecCsp == InitCsp /\ [][NextCsp]_vars

----------------------------------------------------------------------------
(* Specification of the stream built by injectIndex(options)(): one file    *)
(* written into it travels through the stages in the order they are piped   *)

MaxDocParts == 2

MaxInserts == 1

BaseTag == <<"<base", " ", "href=", "\"", "u", "\"", ">">>

ExampleDocument == <<"<html>", "<head>", "</head>", "<body>", "</body>", "</html>">>

\* pieces documents are made of: the anchors of the stages, the end of a tag
\* with a quoted attribute, a line break, plain text
Parts == { <<"<head>">>, <<"</head>">>, <<"<body>">>, <<"</body>">>, BaseTag,
           <<"\"", ">">>, <<"\n">>, InjectScript, InjectCsp, <<"x">> }

RECURSIVE InsertAll(_, _)
InsertAll(text, ins) ==
    IF ins = <<>> THEN text
    ELSE InsertAll(Insert(text, Head(ins)[2], Head(ins)[1]), Tail(ins))

\* documents of up to MaxDocParts parts, and the example document with up to
\* MaxInserts parts put into it
Documents ==
    {Concat(ps) : ps \in SeqsUpTo(Parts, MaxDocParts)}
      \cup {InsertAll(ExampleDocument, ins) :
              ins \in SeqsUpTo(Parts \X (0..Len(ExampleDocument)), MaxInserts)}

Paths == { <<"index", ".html">>, <<"www/", "app", ".js">>, <<"index.html", ".txt">> }

ExampleFragments ==
    [headStart |-> <<"A">>, headEnd |-> <<"B">>, bodyStart |-> <<"C">>, bodyEnd |-> <<"D">>]

\* fragment texts that hold an anchor of a later stage or a replacement pattern
FragmentTexts == { <<>>, <<"$", "&">>, <<"x", "</head>">>, InjectScript }

FragmentSets ==
    {ExampleFragments}
      \cup {[ExampleFragments EXCEPT ![slot] = tx] :
              slot \in {"headStart", "headEnd", "bodyStart", "bodyEnd"}, tx \in FragmentTexts}

DefaultArgs == [source |-> DEFAULT_SOURCE, connectSrc |-> <<>>, defaultSrc |-> <<>>,
                frameSrc |-> <<>>]

InitStream ==
    /\ textToInject \in FragmentSets
    /\ cspArgs = DefaultArgs
    /\ metaCsp = createMetaCsp(DefaultArgs.source, DefaultArgs.connectSrc,
                               DefaultArgs.defaultSrc, DefaultArgs.frameSrc)
    /\ file \in [path : Paths, contents : Documents]
    /\ original = file
    /\ before = file.contents
    /\ stage = "written"
    /\ IdleExtract /\ IdleFactory

\* the file leaves the stage it is waiting at with the given contents
Through(fromStage, toStage, contents) ==
    /\ stage = fromStage
    /\ stage' = toStage
    /\ before' = file.contents
    /\ file' = [file EXCEPT !.contents = contents]
    /\ UNCHANGED <<injectionFile, extracted, cspArgs, metaCsp, textToInject,
                   original, pipelines, streams, calls, written, thrown>>

\* .pipe(() => htmlFilter): matching files go on, the others wait for restore
FilterPass == HtmlFilter(file.path) /\ Through("written", "filtered", file.contents)

FilterHold == ~HtmlFilter(file.path) /\ Through("written", "held", file.contents)

StageHead == Through("filtered", "head", ReplaceHead(file.contents, textToInject))

StageHeadClose == Through("head", "headClose", ReplaceHeadClose(file.contents, textToInject))

StageBody == Through("headClose", "body", ReplaceBody(file.contents, textToInject))

StageBodyClose == Through("body", "bodyClose", ReplaceBodyClose(file.contents, textToInject))

\* size({ title: "inject-cordova-trigger" }) reports and passes the file on
StageSizeTrigger == Through("bodyClose", "injected", file.contents)

StageBase == Through("injected", "base", ReplaceBase(file.contents))

StageScript == Through("base", "script", ReplaceScript(file.contents))

StageCsp == Through("script", "csp", ReplaceCsp(file.contents, metaCsp))

\* size({title: 'inject-cordova-index'})
StageSize == Through("csp", "sized", file.contents)

\* .pipe(() => htmlFilter.restore): transformed and held files leave together
RestoreTransformed == Through("sized", "out", file.contents)

RestoreHeld == Through("held", "out", file.contents)

NextStream ==
    \/ FilterPass \/ FilterHold
    \/ StageHead \/ StageHeadClose \/ StageBody \/ StageBodyClose \/ StageSizeTrigger
    \/ StageBase \/ StageScript \/ StageCsp \/ StageSize
    \/ RestoreTransformed \/ RestoreHeld

SpecStream == InitStream /\ [][NextStream]_vars

----------------------------------------------------------------------------
(* Specification of the factory: injectIndex returns a lazypipe; calling the *)
(* lazypipe builds a stream by calling the piped functions in order; files  *)
(* are then written into built streams.  The injection file may change on   *)
(* disk between any two of these.                                           *)

MaxPipelines == 1

MaxBuilds == 2

MaxWrites == 1

\* the whole stream as a function of the file written into it
StreamOutput(f, t, meta) ==
    IF HtmlFilter(f.path)
    THEN [f EXCEPT !.contents =
            ReplaceCsp(ReplaceScript(ReplaceBase(
              ReplaceBodyClose(ReplaceBody(ReplaceHeadClose(ReplaceHead(f.contents, t), t), t), t))),
              meta)]
    ELSE f

TemplateOf(t) ==
    <<Open("head-start")>> \o t.headStart \o <<Close("head-start"), "\n",
      Open("head-end")>> \o t.headEnd \o <<Close("head-end"), "\n",
      Open("body-start")>> \o t.bodyStart \o <<Close("body-start"), "\n",
      Open("body-end")>> \o t.bodyEnd \o <<Close("body-end")>>

FactoryInjectionFiles ==
    { [kind |-> "file", text |-> TemplateOf(ExampleFragments)],
      [kind |-> "file", text |-> TemplateOf([ExampleFragments EXCEPT !.headStart = <<"E">>])],
      [kind |-> "missing", text |-> <<>>] }

\* arguments of injectIndex: none at all, an options object without entries
\* (source takes its default), an options object for a served application
FactoryOptions ==
    { NoOptions,
      [given |-> TRUE, source |-> DEFAULT_SOURCE, connectSrc |-> <<>>, defaultSrc |-> <<>>,
       frameSrc |-> <<>>],
      [given |-> TRUE, source |-> <<"http://localhost:8080">>,
       connectSrc |-> <<<<"https://a.example">>>>, defaultSrc |-> <<>>,
       frameSrc |-> <<<<"wss://b.example">>>>] }

WrittenFiles ==
    { [path |-> <<"index", ".html">>, contents |-> ExampleDocument \o InjectCsp],
      [path |-> <<"www/", "app", ".js">>, contents |-> <<"<head>">>] }

NoCalls == [extract |-> 0, csp |-> 0]

RECURSIVE SumOf(_)
SumOf(ns) == IF ns = <<>> THEN 0 ELSE Head(ns) + SumOf(Tail(ns))

Builds == SumOf([p \in 1..Len(calls) |-> calls[p].extract])

Writes == SumOf(written)

InitFactory ==
    /\ injectionFile \in FactoryInjectionFiles
    /\ pipelines = <<>> /\ streams = <<>> /\ calls = <<>> /\ written = <<>>
    /\ thrown = NoError
    /\ extracted = NotCalled
    /\ IdleCsp /\ IdleStream

\* injectIndex with the stream of injectDeviceReadyDetection built when the
\* factory is called instead of inside the piped function
InjectIndex_eager(options) ==
    /\ Len(pipelines) < MaxPipelines
    /\ options.given
    /\ extractTextToInject(injectionFilePath, injectionFile).kind = "return"
    /\ pipelines' = Append(pipelines, options)
    /\ calls' = Append(calls, [extract |-> 1, csp |-> 0])
    /\ thrown' = NoError
    /\ UNCHANGED <<injectionFile, extracted, cspArgs, metaCsp, textToInject, file,
                   stage, original, before, streams, written>>

\* injectIndex(options): without an argument the default of the parameter,
\* the undeclared name options, is evaluated and throws; otherwise the filter
\* is created and the lazypipe returned, none of the piped functions called
InjectIndex(options) ==
    /\ Len(pipelines) < MaxPipelines
    /\ IF ~options.given
       THEN /\ thrown' = [name |-> "ReferenceError", message |-> <<"options is not defined">>]
            /\ UNCHANGED <<pipelines, calls>>
       ELSE /\ pipelines' = Append(pipelines, options)
            /\ calls' = Append(calls, NoCalls)
            /\ thrown' = NoError
    /\ UNCHANGED <<injectionFile, extracted, cspArgs, metaCsp, textToInject, file,
                   stage, original, before, streams, written>>

\* injectIndex(options)(): the piped functions are called in order;
\* injectDeviceReadyDetection reads the injection file, and when it throws the
\* functions after it are not called and no stream comes into being
Build(p) ==
    /\ Builds < MaxBuilds
    /\ LET r == extractTextToInject(injectionFilePath, injectionFile)
           o == pipelines[p]
       IN  /\ IF r.kind = "throw"
              THEN /\ calls' = [calls EXCEPT ![p].extract = @ + 1]
                   /\ thrown' = r.error
                   /\ UNCHANGED <<streams, written>>
              ELSE /\ calls' = [calls EXCEPT ![p].extract = @ + 1, ![p].csp = @ + 1]
                   /\ streams' = Append(streams,
                        [pipeline |-> p, textToInject |-> r.value,
                         metaCsp |-> createMetaCsp(o.source, o.connectSrc,
                                                   o.defaultSrc, o.frameSrc)])
                   /\ written' = Append(written, 0)
                   /\ thrown' = NoError
    /\ UNCHANGED <<injectionFile, extracted, cspArgs, metaCsp, textToInject, file,
                   stage, original, before, pipelines>>

\* a file written into built stream s comes out transformed
Write(s, f) ==
    /\ Writes < MaxWrites
    /\ original' = f
    /\ file' = StreamOutput(f, streams[s].textToInject, streams[s].metaCsp)
    /\ written' = [written EXCEPT ![s] = @ + 1]
    /\ UNCHANGED <<injectionFile, extracted, cspArgs, metaCsp, textToInject, stage,
                   before, pipelines, streams, calls, thrown>>

\* the injection file is edited, emptied, removed or put back on disk
ChangeInjectionFile ==
    /\ injectionFile' \in FactoryInjectionFiles \ {injectionFile}
    /\ UNCHANGED <<extracted, cspArgs, metaCsp, textToInject, file, stage, original,
                   before, pipelines, streams, calls, written, thrown>>

NextFactory ==
    \/ \E options \in FactoryOptions : InjectIndex(options)
    \/ \E p \in 1..Len(pipelines) : Build(p)
    \/ \E s \in 1..Len(streams) : \E f \in WrittenFiles : Write(s, f)
    \/ ChangeInjectionFile

SpecFactory == InitFactory /\ [][NextFactory]_vars

----------------------------------------------------------------------------
(* Claims about the extractor, checked under SpecExtract *)

\* a tag pair is present: an opening tag with a closing tag after it
PairPresent(text, t) ==
    \E i, j \in 1..Len(text) : i < j /\ text[i] = Open(t) /\ text[j] = Close(t)

\* the text between the first opening tag and the first closing tag after it
InnerFirst(text, t) ==
    LET i == Min({k \in 1..Len(text) : text[k] = Open(t)})
        j == Min({k \in 1..Len(text) : k > i /\ text[k] = Close(t)})
    IN  SubSeq(text, i + 1, j - 1)

ExtractCalled == extracted.kind # "none"

FragmentOf(v, t) ==
    CASE t = "head-start" -> v.headStart
      [] t = "head-end"   -> v.headEnd
      [] t = "body-start" -> v.bodyStart
      [] t = "body-end"   -> v.bodyEnd

\* C1: when all four tag pairs are present, extractTextToInject returns for
\* each tag exactly the text between the first opening tag and the first
\* closing tag that follows it, so a fragment never holds its own closing tag.
C1_FirstMatchInnerText ==
    (ExtractCalled /\ injectionFile.kind = "file"
       /\ \A t \in Tags : PairPresent(injectionFile.text, t))
    => /\ extracted.kind = "return"
       /\ \A t \in Tags :
            /\ FragmentOf(extracted.value, t) = InnerFirst(injectionFile.text, t)
            /\ ~Contains(FragmentOf(extracted.value, t), <<Close(t)>>)

\* C3: on a non-empty injection file in which at least one tag pair is absent,
\* extractTextToInject throws the bad-injection-file error, whose message
\* holds the path of the file, and returns no fragment set.
C3_MissingTagThrows ==
    (ExtractCalled /\ injectionFile.kind = "file" /\ injectionFile.text # <<>>
       /\ \E t \in Tags : ~PairPresent(injectionFile.text, t))
    => /\ extracted.kind = "throw"
       /\ extracted.error.name = "BadInjectionFile"
       /\ Contains(extracted.error.message, injectionFilePath)
       /\ extracted.value = NoFragments

\* the call was made on a file that lacks exactly the head-start pair
C3_Witness ==
    /\ ExtractCalled /\ injectionFile.kind = "file"
    /\ ~PairPresent(injectionFile.text, "head-start")
    /\ \A t \in Tags \ {"head-start"} : PairPresent(injectionFile.text, t)
    /\ extracted.kind = "throw"

\* C4: on an empty, a missing and an unreadable injection file alike,
\* extractTextToInject throws the file-not-found error and returns nothing.
C4_NotFoundInAllThreeCases ==
    (ExtractCalled /\ (injectionFile.kind # "file" \/ injectionFile.text = <<>>))
    => /\ extracted.kind = "throw"
       /\ extracted.error.name = "FileNotFound"
       /\ extracted.value = NoFragments

----------------------------------------------------------------------------
(* Claims about the CSP composer, checked under SpecCsp *)

DirectiveNames == <<"default-src", "media-src", "img-src", "font-src",
                    "style-src", "connect-src", "frame-src", "child-src">>

\* entries one after another, each preceded by a space
RECURSIVE Spaced(_)
Spaced(entries) ==
    IF entries = <<>> THEN <<>> ELSE <<" ">> \o Head(entries) \o Spaced(Tail(entries))

\* the value the claim gives directive name d for the arguments a
ClaimedValue(d, a) ==
    CASE d = "default-src" ->
           <<"'self' data: gap: https://ssl.gstatic.com 'unsafe-eval' 'unsafe-inline'",
             " ", "https://www.google-analytics.com",
             " ", "https://www.youtube.com",
             " ", "https://s.ytimg.com">> \o Spaced(a.defaultSrc)
      [] d = "media-src" -> <<"data: *">>
      [] d = "img-src" -> <<"data: blob: *">>
      [] d = "font-src" -> <<"data: 'self' https://fonts.gstatic.com">>
      [] d = "style-src" -> <<"'self' 'unsafe-inline' https://fonts.googleapis.com">>
      [] d = "connect-src" ->
           <<"self:", " ">> \o (IF a.source = <<"index.html">> THEN <<"file:">> ELSE a.source)
             \o Spaced(a.connectSrc)
      [] d \in {"frame-src", "child-src"} ->
           <<"https://www.youtube.com">> \o Spaced(a.frameSrc)

\* the directives from the k-th on, each but the first preceded by ';'
RECURSIVE ClaimedContent(_, _)
ClaimedContent(k, a) ==
    IF k > Len(DirectiveNames) THEN <<>>
    ELSE (IF k = 1 THEN <<>> ELSE <<";">>)
           \o <<DirectiveNames[k], " ">> \o ClaimedValue(DirectiveNames[k], a)
           \o ClaimedContent(k + 1, a)

\* the content attribute of the composed tag
ContentOf(tag) == SubSeq(tag, 2, Len(tag) - 1)

\* C5: the content composed by createMetaCsp is the eight directives in
\* declaration order joined by ';' with no trailing semicolon; connect-src is
\* self: then file: (source index.html) or the source itself, then the caller's
\* entries; default-src and frame-src/child-src append the caller's entries to
\* the baseline, in order and with repetitions kept.
C5_ComposedContent ==
    metaCsp # <<>> =>
        /\ ContentOf(metaCsp) = ClaimedContent(1, cspArgs)
        /\ metaCsp[Len(metaCsp) - 1] # ";"
        /\ Head(metaCsp) = "<meta http-equiv=\"Content-Security-Policy\" content=\""

\* composed for a source other than index.html and a connectSrc list that
\* repeats an origin
C5_Witness ==
    /\ metaCsp # <<>>
    /\ cspArgs.source = <<"http://localhost:8080">>
    /\ cspArgs.connectSrc = <<<<"https://a.example">>, <<"https://a.example">>>>
    /\ cspArgs.frameSrc # <<>> /\ cspArgs.defaultSrc # <<>>

----------------------------------------------------------------------------
(* Claims about the stream, checked under SpecStream *)

Count(text, sym) == Cardinality({i \in 1..Len(text) : text[i] = sym})

EndsInHtml(path) == path[Len(path)] = ".html"

\* what a symbol of the document becomes when the fragments t, the text script
\* and the text meta are spliced in verbatim at the anchors
Spliced(sym, t, script, meta) ==
    CASE sym = "<head>"  -> <<"<head>">> \o t.headStart
      [] sym = "</head>" -> t.headEnd \o <<"</head>">>
      [] sym = "<body>"  -> <<"<body>">> \o t.bodyStart
      [] sym = "</body>" -> t.bodyEnd \o <<"</body>">>
      [] sym = InjectScript[1] -> script
      [] sym = InjectCsp[1] -> meta
      [] OTHER -> <<sym>>

\* the document with every anchor replaced where it stands
RECURSIVE SpliceAll(_, _, _, _)
SpliceAll(text, t, script, meta) ==
    IF text = <<>> THEN <<>>
    ELSE Spliced(Head(text), t, script, meta) \o SpliceAll(Tail(text), t, script, meta)

OneOfEachTag(text) ==
    \A sym \in {"<head>", "</head>", "<body>", "</body>"} : Count(text, sym) = 1

ExampleWritten ==
    /\ original.contents = ExampleDocument
    /\ EndsInHtml(original.path)
    /\ textToInject = ExampleFragments

\* C6 as stated: the example document leaves the stream as
\* <html><head>A B</head><body>C D</body></html>, the fragments of a pair
\* separated by a space.
C6_ExampleWithSpaces ==
    (stage = "out" /\ ExampleWritten)
    => file.contents = <<"<html>", "<head>", "A", " ", "B", "</head>",
                         "<body>", "C", " ", "D", "</body>", "</html>">>

\* C6: with the fragments A, B, C, D, a document holding one <head>, </head>,
\* <body> and </body> each leaves the four stages of injectDeviceReadyDetection
\* with A right after <head>, B right before </head>, C right after <body> and
\* D right before </body>, each once and with nothing put between them; the
\* example document leaves the stream as <html><head>AB</head><body>CD</body></html>.
C6_FragmentsAdjacent ==
    /\ (stage = "out" /\ ExampleWritten)
       => file.contents = <<"<html>", "<head>", "A", "B", "</head>",
                            "<body>", "C", "D", "</body>", "</html>">>
    /\ (stage = "injected" /\ textToInject = ExampleFragments
          /\ OneOfEachTag(original.contents))
       => /\ file.contents = SpliceAll(original.contents, textToInject, InjectScript, InjectCsp)
          /\ \A f \in {"A", "B", "C", "D"} : Count(file.contents, f) = 1

C6_Witness == stage = "out" /\ ExampleWritten /\ Count(file.contents, "B") = 1

\* the text with its first base tag, "<base" up to the next ">", taken out
WithoutFirstBaseTag(text) ==
    LET i == Min({k \in 1..Len(text) : text[k] = "<base"})
        j == Min({k \in i..Len(text) : text[k] = ">"})
    IN  SubSeq(text, 1, i - 1) \o From(text, j + 1)

\* C7: the base stage takes the base tag of a document, and only that tag, out:
\* no base tag is left and every character outside the tag is kept.
C7_OnlyBaseTagRemoved ==
    (stage = "base" /\ Count(before, "<base") = 1)
    => /\ Count(file.contents, "<base") = 0
       /\ file.contents = WithoutFirstBaseTag(before)

\* C8: a file the HTML filter does not match is never touched: it leaves the
\* stream with the contents and the path it was written with.
C8_NonHtmlUnchanged ==
    ~EndsInHtml(original.path) => file = original

\* a non-HTML file that holds anchors of the stages has left the stream
C8_Witness ==
    /\ stage = "out" /\ ~EndsInHtml(original.path)
    /\ original.contents = <<"<head>">> \o InjectScript
    /\ file = original

\* the anchor of the replace stage the file has just left, as a match in the
\* text that entered the stage
AnchorMatch(st, text) ==
    CASE st = "head"      -> MatchLiteral(text, "<head>")
      [] st = "headClose" -> MatchLiteral(text, "</head>")
      [] st = "body"      -> MatchLiteral(text, "<body>")
      [] st = "bodyClose" -> MatchLiteral(text, "</body>")
      [] st = "base"      -> MatchBase(text)
      [] st = "script"    -> MatchLiteral(text, InjectScript[1])
      [] st = "csp"       -> MatchLiteral(text, InjectCsp[1])

ReplaceStages == {"head", "headClose", "body", "bodyClose", "base", "script", "csp"}

\* C9: each of the seven replace stages changes the first occurrence of its
\* anchor only: the text before it and all the text after it, later occurrences
\* included, leave the stage as they entered; without the anchor nothing changes.
C9_FirstOccurrenceOnly ==
    stage \in ReplaceStages =>
        LET m == AnchorMatch(stage, before)
            rest == From(before, m.to + 1)
        IN  IF ~m.found THEN file.contents = before
            ELSE /\ SubSeq(file.contents, 1, m.from - 1) = SubSeq(before, 1, m.from - 1)
                 /\ Len(file.contents) >= m.from - 1 + Len(rest)
                 /\ From(file.contents, Len(file.contents) - Len(rest) + 1) = rest

\* C10: the stages do not interfere: the output is the original document with
\* each fragment, the script tag and the CSP tag spliced in verbatim at its
\* anchor in the original document.  Stated for documents that hold each anchor
\* at most once and no base tag.
C10_StagesIndependent ==
    (stage = "out" /\ EndsInHtml(original.path)
       /\ Count(original.contents, "<base") = 0
       /\ \A sym \in {"<head>", "</head>", "<body>", "</body>",
                      InjectScript[1], InjectCsp[1]} : Count(original.contents, sym) <= 1)
    => file.contents = SpliceAll(original.contents, textToInject, CordovaScript, metaCsp)

----------------------------------------------------------------------------
(* Claims about the factory, checked under SpecFactory *)

TemplateErrors == {"FileNotFound", "BadInjectionFile", "ENOENT", "EACCES"}

StreamsOf(p) == {s \in 1..Len(streams) : streams[s].pipeline = p}

\* C2 as stated: extraction and CSP composition take place once per call of
\* the factory, during that call.
C2_OncePerFactoryCall ==
    \A p \in 1..Len(pipelines) : calls[p].extract = 1 /\ calls[p].csp = 1

\* C2: extraction and CSP composition take place once per build of the
\* lazypipe the factory returns (each use of the returned transform), during
\* the build and before any file goes through the built stream, and never per
\* file; the factory call reads nothing; when extraction fails the build
\* throws the error, no stream comes into being and no file is transformed.
C2_OncePerBuild ==
    [][ /\ pipelines' # pipelines
           => /\ calls' = Append(calls, NoCalls)
              /\ streams' = streams /\ written' = written
              /\ thrown'.name \notin TemplateErrors
        /\ streams' # streams
           => \E p \in 1..Len(pipelines) :
                /\ calls' = [calls EXCEPT ![p] = [extract |-> @.extract + 1, csp |-> @.csp + 1]]
                /\ Len(streams') = Len(streams) + 1
                /\ streams'[Len(streams')].pipeline = p
                /\ written' = Append(written, 0)
        /\ written' # written /\ streams' = streams
           => calls' = calls /\ pipelines' = pipelines
        /\ (calls' # calls /\ thrown'.name \in TemplateErrors)
           => streams' = streams /\ written' = written /\ file' = file
        /\ \A p \in 1..Len(pipelines') :
             /\ calls'[p].csp = Cardinality({s \in 1..Len(streams') : streams'[s].pipeline = p})
             /\ calls'[p].csp <= calls'[p].extract
      ]_vars

\* one lazypipe was built twice, and a file went through one of its streams
C2_Witness ==
    \E p \in 1..Len(pipelines) :
        /\ calls[p].extract >= 2
        /\ Cardinality(StreamsOf(p)) = 2
        /\ \E s \in StreamsOf(p) : written[s] >= 1
        /\ \E s1, s2 \in StreamsOf(p) : streams[s1].textToInject # streams[s2].textToInject

====
